---- MODULE Spec2Model ----
(***************************************************************************)
(* Model of the clinical-trial-chat backend core:                          *)
(*   - result_truncation.py   (estimate_tokens, truncate_json_array,       *)
(*                             truncate_text, smart_truncate_result,       *)
(*                             _truncate_json_structure)                   *)
(*   - truncating_toolset.py  (TruncatingToolset.call_tool)                *)
(*   - ag_ui.py               (event_stream, run_agent)                    *)
(*                                                                         *)
(* Text is modelled by TLA+ strings, character for character.  A Python    *)
(* value is a tagged record [t |-> tag, v |-> payload]; a dict keeps its   *)
(* insertion order as a sequence of [k |-> key, val |-> value].            *)
(***************************************************************************)
EXTENDS Integers, Sequences, FiniteSets, TLC

VARIABLES
    \* ---- truncation pipeline (one call of smart_truncate_result) ----
    tin,        \* index of the raw tool result in RawPool
    tmax,       \* max_tokens
    titems,     \* max_array_items
    tpc,        \* "init" | "bounded" | "rebounded" | "called" | "array" | "text"
    tout,       \* outcome of smart_truncate_result on the raw result
    tout2,      \* outcome of smart_truncate_result on tout.model_content
    tstruct,    \* result of _truncate_json_structure on the parsed raw result
    tcall,      \* a call_tool of an interceptor: its toolset, tool name and outcome
    tarr,       \* result of truncate_json_array on the raw result, a list
    ttext,      \* result of truncate_text on the raw result, a str
    \* ---- event stream (one generator per request) ----
    pc,         \* position of each run's event_stream generator
    events,     \* events each generator has yielded, in order
    produced,   \* text fragments the agent's model has produced, in order
    exc,        \* the exception each run's except clause caught ("" if none)
    connected,  \* whether each run's client is still connected
    calls,      \* status of each run's tool calls
    \* ---- request conversion (event_stream lines 32-45) ----
    messages,        \* the messages of the inbound request
    rpc,             \* "received" | "converted" | "running"
    message_history, \* the local message_history
    user_prompt,     \* the local user_prompt
    run_stream       \* the arguments agent.run_stream was called with

tvars == <<tin, tmax, titems, tpc, tout, tout2, tstruct, tcall, tarr, ttext>>
svars == <<pc, events, produced, exc, connected, calls>>
rvars == <<messages, rpc, message_history, user_prompt, run_stream>>
vars == <<tin, tmax, titems, tpc, tout, tout2, tstruct, tcall, tarr, ttext,
          pc, events, produced, exc, connected, calls,
          messages, rpc, message_history, user_prompt, run_stream>>

(***************************************************************************)
(* Python values                                                           *)
(***************************************************************************)
JInt(n) == [t |-> "int", v |-> n]
JStr(s) == [t |-> "str", v |-> s]
JBool(b) == [t |-> "bool", v |-> b]
JList(items) == [t |-> "list", v |-> items]
JDict(pairs) == [t |-> "dict", v |-> pairs]
\* a value json.dumps cannot render (a datetime, a CallToolResult object, ...)
JObj == [t |-> "obj", v |-> "object"]
JNull == [t |-> "null", v |-> "None"]
KV(key, value) == [k |-> key, val |-> value]

RECURSIVE Rep(_, _)
Rep(s, n) == IF n <= 0 THEN "" ELSE s \o Rep(s, n - 1)

Ints(n) == [i \in 1..n |-> JInt(i)]

RECURSIVE Serializable(_)
Serializable(v) ==
    CASE v.t = "obj" -> FALSE
      [] v.t = "list" -> \A i \in 1..Len(v.v) : Serializable(v.v[i])
      [] v.t = "dict" -> \A i \in 1..Len(v.v) : Serializable(v.v[i].val)
      [] OTHER -> TRUE

(***************************************************************************)
(* json.dumps(value, indent=2)                                             *)
(***************************************************************************)
Indent(level) == Rep("  ", level)

RECURSIVE Dumps(_, _)
RECURSIVE DumpsItems(_, _, _)
RECURSIVE DumpsPairs(_, _, _)
Dumps(v, level) ==
    CASE v.t = "int" -> ToString(v.v)
      [] v.t = "bool" -> IF v.v THEN "true" ELSE "false"
      [] v.t = "null" -> "null"
      [] v.t = "str" -> "\"" \o v.v \o "\""
      [] v.t = "list" ->
            IF Len(v.v) = 0 THEN "[]"
            ELSE "[\n" \o DumpsItems(v.v, 1, level + 1) \o "\n" \o Indent(level) \o "]"
      [] v.t = "dict" ->
            IF Len(v.v) = 0 THEN "{}"
            ELSE "{\n" \o DumpsPairs(v.v, 1, level + 1) \o "\n" \o Indent(level) \o "}"
DumpsItems(items, i, level) ==
    Indent(level) \o Dumps(items[i], level)
        \o (IF i = Len(items) THEN "" ELSE ",\n" \o DumpsItems(items, i + 1, level))
DumpsPairs(pairs, i, level) ==
    Indent(level) \o "\"" \o pairs[i].k \o "\": " \o Dumps(pairs[i].val, level)
        \o (IF i = Len(pairs) THEN "" ELSE ",\n" \o DumpsPairs(pairs, i + 1, level))

\* the compact rendering a tool server sends on the wire (no whitespace)
RECURSIVE Compact(_)
RECURSIVE CompactItems(_, _)
RECURSIVE CompactPairs(_, _)
Compact(v) ==
    CASE v.t = "int" -> ToString(v.v)
      [] v.t = "bool" -> IF v.v THEN "true" ELSE "false"
      [] v.t = "null" -> "null"
      [] v.t = "str" -> "\"" \o v.v \o "\""
      [] v.t = "list" -> "[" \o (IF Len(v.v) = 0 THEN "" ELSE CompactItems(v.v, 1)) \o "]"
      [] v.t = "dict" -> "{" \o (IF Len(v.v) = 0 THEN "" ELSE CompactPairs(v.v, 1)) \o "}"
CompactItems(items, i) ==
    Compact(items[i]) \o (IF i = Len(items) THEN "" ELSE "," \o CompactItems(items, i + 1))
CompactPairs(pairs, i) ==
    "\"" \o pairs[i].k \o "\":" \o Compact(pairs[i].val)
        \o (IF i = Len(pairs) THEN "" ELSE "," \o CompactPairs(pairs, i + 1))

(***************************************************************************)
(* result_truncation.py                                                    *)
(***************************************************************************)
estimate_tokens(text) == Len(text) \div 4

\* the array truncation reporting max_items as shown whatever the array's length
truncate_json_array_showing_cap(data, max_items, include_summary) ==
    LET total_count == Len(data) IN
    IF total_count <= max_items
    THEN JDict(<< KV("items", JList(data)),
                  KV("total_count", JInt(total_count)),
                  KV("showing", JInt(max_items)),
                  KV("truncated", JBool(FALSE)) >>)
    ELSE JDict(<< KV("items", JList(SubSeq(data, 1, max_items))),
                  KV("total_count", JInt(total_count)),
                  KV("showing", JInt(max_items)),
                  KV("truncated", JBool(TRUE)) >>)

truncate_json_array(data, max_items, include_summary) ==
    LET total_count == Len(data) IN
    IF total_count <= max_items
    THEN JDict(<< KV("items", JList(data)),
                  KV("total_count", JInt(total_count)),
                  KV("showing", JInt(total_count)),
                  KV("truncated", JBool(FALSE)) >>)
    ELSE LET result == << KV("items", JList(SubSeq(data, 1, max_items))),
                          KV("total_count", JInt(total_count)),
                          KV("showing", JInt(max_items)),
                          KV("truncated", JBool(TRUE)) >>
         IN  IF include_summary
             THEN JDict(Append(result,
                        KV("summary", JStr("Showing first " \o ToString(max_items)
                            \o " of " \o ToString(total_count) \o " items. "
                            \o ToString(total_count - max_items)
                            \o " items truncated."))))
             ELSE JDict(result)

TruncationMarker(length, max_chars) ==
    "\n\n... [Truncated. Original length: " \o ToString(length)
        \o " chars, showing first " \o ToString(max_chars) \o " chars]"

\* the text truncation cutting a text of exactly max_chars characters too
truncate_text_strict(text, max_tokens) ==
    LET max_chars == max_tokens * 4 IN
    IF Len(text) < max_chars
    THEN text
    ELSE SubSeq(text, 1, max_chars) \o TruncationMarker(Len(text), max_chars)

truncate_text(text, max_tokens) ==
    LET max_chars == max_tokens * 4 IN
    IF Len(text) <= max_chars
    THEN text
    ELSE SubSeq(text, 1, max_chars) \o TruncationMarker(Len(text), max_chars)

RECURSIVE truncate_json_structure(_, _)
truncate_json_structure(data, max_array_items) ==
    CASE data.t = "dict" ->
            JDict([i \in 1..Len(data.v) |->
                     KV(data.v[i].k,
                        truncate_json_structure(data.v[i].val, max_array_items))])
      [] data.t = "list" -> truncate_json_array(data.v, max_array_items, TRUE)
      [] OTHER -> data

(***************************************************************************)
(* Raw tool results the properties range over.  A Python str result is   *)
(* JStr; everything else is a structured (non-string) result.             *)
(***************************************************************************)
NumInts == 40

Row(id, ntags) == JDict(<< KV("id", JInt(id)), KV("tags", JList(Ints(ntags))) >>)

StructPool ==
    << JList(Ints(3)),
       JList(Ints(6)),
       JList(Ints(NumInts)),
       JList(<< JList(Ints(4)), JList(Ints(5)) >>),
       JDict(<< KV("rows", JList(<< Row(1, 4), Row(2, 1), Row(3, 5) >>)),
                KV("count", JInt(3)) >>),
       JDict(<< KV("columns", JList(<< JStr("id"), JStr("name") >>)),
                KV("rows", JList([i \in 1..NumInts |-> JList(<< JInt(i) >>)])),
                KV("count", JInt(NumInts)) >>),
       JDict(<< KV("status", JStr("ok")) >>),
       JStr(Rep("lorem ", 20)),
       JInt(7),
       JNull >>

\* a text that already is max_chars characters followed by the marker of
\* truncate_text for its own length
SelfDescribing(max_chars, length) ==
    Rep("a", max_chars) \o TruncationMarker(length, max_chars)

TextPool ==
    << "ok",
       Rep("a", 20),
       SelfDescribing(20, 88),
       Rep("a", 23),
       Rep("a", 24),
       Rep("trial ", 15),
       Rep("adverse event ", 30),
       "[1, 2, 3" >>

UnserializablePool ==
    << JObj,
       JDict(<< KV("result", JObj) >>),
       JList(<< JInt(1), JObj >>) >>

\* every raw result: structured values, the same values as JSON text (indented
\* and compact), opaque text, and values json.dumps cannot render
RawPool ==
    StructPool
        \o [i \in 1..Len(StructPool) |-> JStr(Dumps(StructPool[i], 0))]
        \o [i \in 1..Len(StructPool) |-> JStr(Compact(StructPool[i]))]
        \o [i \in 1..Len(TextPool) |-> JStr(TextPool[i])]
        \o UnserializablePool

TokenBudgets == {5, 20, 40, 80}
ArrayCaps == {1, 2, 4}
ArrayCapSeq == <<1, 2, 4>>

(***************************************************************************)
(* json.loads(text): the inverse of the two renderings over the structured *)
(* values of the pool and their structural truncations; any other text     *)
(* raises JSONDecodeError.                                                 *)
(***************************************************************************)
ParseDomain ==
    StructPool
        \o [n \in 1..(Len(StructPool) * Len(ArrayCapSeq)) |->
              truncate_json_structure(
                  StructPool[((n - 1) \div Len(ArrayCapSeq)) + 1],
                  ArrayCapSeq[((n - 1) % Len(ArrayCapSeq)) + 1])]

Renders(value, text) == Dumps(value, 0) = text \/ Compact(value) = text

Parsed(domain, hits) ==
    IF hits = {}
    THEN [ok |-> FALSE]
    ELSE [ok |-> TRUE, value |-> domain[CHOOSE i \in hits : \A j \in hits : i <= j]]

LoadsIn(domain, text) ==
    Parsed(domain, {i \in 1..Len(domain) : Renders(domain[i], text)})

Loads(text) == LoadsIn(ParseDomain, text)

(***************************************************************************)
(* smart_truncate_result                                                   *)
(***************************************************************************)
Raised(error) == [raised |-> TRUE, error |-> error]

TruncationResult(model_content, full_content, was_truncated, original_size, truncated_size, metadata) ==
    [raised |-> FALSE,
     model_content |-> model_content,
     full_content |-> full_content,
     was_truncated |-> was_truncated,
     original_size |-> original_size,
     truncated_size |-> truncated_size,
     metadata |-> metadata]

\* lines 122-135: the string form, the parsed form and is_json
FromText(text, p) ==
    [raised |-> FALSE, result_str |-> text, is_json |-> p.ok,
     parsed |-> IF p.ok THEN p.value ELSE JNull]

Normalize(result) ==
    IF result.t = "str"
    THEN FromText(result.v, Loads(result.v))
    ELSE IF Serializable(result)
         THEN [raised |-> FALSE, result_str |-> Dumps(result, 0), is_json |-> TRUE,
               parsed |-> result]
         ELSE Raised("TypeError: Object of type object is not JSON serializable")

\* lines 141-149
Untruncated(result_str) ==
    TruncationResult(result_str, result_str, FALSE, Len(result_str), Len(result_str),
                     [estimated_tokens |-> estimate_tokens(result_str)])

\* lines 160-171 and 176-187
Truncated(truncated_str, result_str, truncation_type) ==
    TruncationResult(truncated_str, result_str, TRUE, Len(result_str), Len(truncated_str),
                     [truncation_type |-> truncation_type,
                      original_tokens |-> estimate_tokens(result_str),
                      truncated_tokens |-> estimate_tokens(truncated_str)])

\* lines 157-158: the text clamp after structural truncation
Clamp(truncated_str, max_tokens) ==
    IF estimate_tokens(truncated_str) > max_tokens
    THEN truncate_text(truncated_str, max_tokens)
    ELSE truncated_str

\* the branches with a strict comparison against the budget
DecideStrict(n, max_tokens, max_array_items) ==
    IF n.raised THEN n
    ELSE IF estimate_tokens(n.result_str) < max_tokens
    THEN Untruncated(n.result_str)
    ELSE Truncated(truncate_text(n.result_str, max_tokens), n.result_str, "text")

\* lines 137-187, on the normalized result n
Decide(n, max_tokens, max_array_items) ==
    IF n.raised THEN n
    ELSE IF estimate_tokens(n.result_str) <= max_tokens
    THEN Untruncated(n.result_str)
    ELSE IF n.is_json /\ n.parsed.t # "null"
    THEN Truncated(Clamp(Dumps(truncate_json_structure(n.parsed, max_array_items), 0),
                         max_tokens),
                   n.result_str, "smart_json")
    ELSE Truncated(truncate_text(n.result_str, max_tokens), n.result_str, "text")

smart_truncate_result(result, max_tokens, max_array_items) ==
    Decide(Normalize(result), max_tokens, max_array_items)

(***************************************************************************)
(* create_truncated_response and the two interceptors                      *)
(***************************************************************************)
MetadataPairs(o) ==
    IF o.was_truncated
    THEN << KV("truncation_type", JStr(o.metadata.truncation_type)),
            KV("original_tokens", JInt(o.metadata.original_tokens)),
            KV("truncated_tokens", JInt(o.metadata.truncated_tokens)) >>
    ELSE << KV("estimated_tokens", JInt(o.metadata.estimated_tokens)) >>

\* the envelope without the full result (full_result always None)
create_response_without_full(tool_name, original_result, o) ==
    JDict(<< KV("content", JStr(o.model_content)),
             KV("metadata", JDict(<<
                 KV("tool_name", JStr(tool_name)),
                 KV("truncation", JDict(<<
                     KV("was_truncated", JBool(o.was_truncated)),
                     KV("original_size", JInt(o.original_size)),
                     KV("truncated_size", JInt(o.truncated_size)) >>
                     \o MetadataPairs(o))),
                 KV("full_result", JNull) >>)) >>)

create_truncated_response(tool_name, original_result, o) ==
    JDict(<< KV("content", JStr(o.model_content)),
             KV("metadata", JDict(<<
                 KV("tool_name", JStr(tool_name)),
                 KV("truncation", JDict(<<
                     KV("was_truncated", JBool(o.was_truncated)),
                     KV("original_size", JInt(o.original_size)),
                     KV("truncated_size", JInt(o.truncated_size)) >>
                     \o MetadataPairs(o))),
                 KV("full_result",
                    IF o.was_truncated THEN JStr(o.full_content) ELSE JNull) >>)) >>)

Returned(value) == [raised |-> FALSE, value |-> value]

\* an interceptor that returns the orchestrator's content whether or not anything
\* was truncated (a structured result comes back re-encoded as text)
ShapeReencoded(self, name, result, truncation_result) ==
    IF truncation_result.raised THEN truncation_result
    ELSE Returned(JStr(truncation_result.model_content))

\* self: [verbose, max_tokens, max_array_items, has_enabled_tools, enabled_tools];
\* underlying: what super().call_tool produced, a Returned(value) or a Raised(error)
\* lines 80-87 (default) and 151-156 (verbose), on the orchestrator's outcome
Shape(self, name, result, truncation_result) ==
    IF truncation_result.raised THEN truncation_result
    ELSE IF ~truncation_result.was_truncated THEN Returned(result)
    ELSE IF self.verbose
         THEN Returned(create_truncated_response(name, result, truncation_result))
         ELSE Returned(JStr(truncation_result.model_content))

call_tool(self, name, underlying) ==
    IF underlying.raised THEN underlying
    ELSE IF self.has_enabled_tools /\ name \notin self.enabled_tools
    THEN Returned(underlying.value)
    ELSE Shape(self, name, underlying.value,
               smart_truncate_result(underlying.value, self.max_tokens,
                                     self.max_array_items))

(***************************************************************************)
(* The truncation pipeline as a state machine: the inputs are drawn at     *)
(* Init, each action applies one function of result_truncation.py.         *)
(***************************************************************************)
Pending == [done |-> FALSE]

\* the parsed form smart_truncate_result hands to _truncate_json_structure
StructuredOf(n) ==
    IF n.raised THEN [ok |-> FALSE]
    ELSE IF n.is_json THEN [ok |-> TRUE, value |-> n.parsed] ELSE [ok |-> FALSE]

Structured(result) == StructuredOf(Normalize(result))

TBound ==
    /\ tpc = "init"
    /\ tout' = smart_truncate_result(RawPool[tin], tmax, titems)
    /\ tpc' = "bounded"
    /\ UNCHANGED <<tin, tmax, titems, tout2, tstruct, tcall, tarr, ttext>>
    /\ UNCHANGED <<svars, rvars>>

TRebound ==
    /\ tpc = "bounded"
    /\ ~tout.raised
    /\ tout2' = smart_truncate_result(JStr(tout.model_content), tmax, titems)
    /\ tpc' = "rebounded"
    /\ UNCHANGED <<tin, tmax, titems, tout, tstruct, tcall, tarr, ttext>>
    /\ UNCHANGED <<svars, rvars>>

StructureOf(p, max_array_items) ==
    /\ p.ok
    /\ tstruct' = [done |-> TRUE,
                   value |-> truncate_json_structure(p.value, max_array_items)]

TStructure ==
    /\ ~tstruct.done
    /\ StructureOf(Structured(RawPool[tin]), titems)
    /\ UNCHANGED <<tin, tmax, titems, tpc, tout, tout2, tcall, tarr, ttext>>
    /\ UNCHANGED <<svars, rvars>>

\* truncating_toolset.py lines 43-45: the toolsets, default and verbose, without
\* and with an allow-set
ToolNames == {"search", "lookup"}
Toolsets(max_tokens, max_array_items) ==
    { [verbose |-> verbose, max_tokens |-> max_tokens,
       max_array_items |-> max_array_items,
       has_enabled_tools |-> allow.has_enabled_tools,
       enabled_tools |-> allow.enabled_tools] :
         verbose \in BOOLEAN,
         allow \in { [has_enabled_tools |-> FALSE, enabled_tools |-> {}],
                     [has_enabled_tools |-> TRUE, enabled_tools |-> {"search"}] } }

\* what super().call_tool does with the tool's raw result: return it, or raise
Underlying(result) == { Returned(result), Raised("tool server error") }

\* lines 74-78: the local truncation_result, if the call gets that far
Orchestrated(self, name, underlying) ==
    IF underlying.raised \/ (self.has_enabled_tools /\ name \notin self.enabled_tools)
    THEN Pending
    ELSE smart_truncate_result(underlying.value, self.max_tokens, self.max_array_items)

Intercepted(self, name, underlying) ==
    tcall' = [done |-> TRUE, self |-> self, name |-> name,
              underlying |-> underlying,
              truncation_result |-> Orchestrated(self, name, underlying),
              out |-> call_tool(self, name, underlying)]

\* one call_tool of an interceptor on the raw result
TIntercept ==
    /\ tpc = "init"
    /\ \E self \in Toolsets(tmax, titems), name \in ToolNames,
          underlying \in Underlying(RawPool[tin]) :
            Intercepted(self, name, underlying)
    /\ tpc' = "called"
    /\ UNCHANGED <<tin, tmax, titems, tout, tout2, tstruct, tarr, ttext>>
    /\ UNCHANGED <<svars, rvars>>

\* truncate_json_array on a raw result that is a list, with and without summary
ArrayOf(p, max_items, include_summary) ==
    /\ p.ok
    /\ p.value.t = "list"
    /\ tarr' = [done |-> TRUE, data |-> p.value.v, include_summary |-> include_summary,
                value |-> truncate_json_array(p.value.v, max_items, include_summary)]

TArray ==
    /\ tpc = "init"
    /\ \E include_summary \in BOOLEAN :
          ArrayOf(Structured(RawPool[tin]), titems, include_summary)
    /\ tpc' = "array"
    /\ UNCHANGED <<tin, tmax, titems, tout, tout2, tstruct, tcall, ttext>>
    /\ UNCHANGED <<svars, rvars>>

\* truncate_text on a raw result that is a str
TText ==
    /\ tpc = "init"
    /\ RawPool[tin].t = "str"
    /\ ttext' = [done |-> TRUE, value |-> truncate_text(RawPool[tin].v, tmax)]
    /\ tpc' = "text"
    /\ UNCHANGED <<tin, tmax, titems, tout, tout2, tstruct, tcall, tarr>>
    /\ UNCHANGED <<svars, rvars>>

TInit ==
    /\ tin \in 1..Len(RawPool)
    /\ tmax \in TokenBudgets
    /\ titems \in ArrayCaps
    /\ tpc = "init"
    /\ tout = Pending
    /\ tout2 = Pending
    /\ tstruct = Pending
    /\ tcall = Pending
    /\ tarr = Pending
    /\ ttext = Pending

\* the pipeline is not exercised: the stream specification keeps it here
TIdle ==
    /\ tin = 1
    /\ tmax = 20
    /\ titems = 2
    /\ tpc = "idle"
    /\ tout = Pending
    /\ tout2 = Pending
    /\ tstruct = Pending
    /\ tcall = Pending
    /\ tarr = Pending
    /\ ttext = Pending

(***************************************************************************)
(* ag_ui.py: one event_stream generator per request, all requests sharing  *)
(* the module-level agent and its tool-server connection.                  *)
(***************************************************************************)
Runs == {1, 2}
Fragments == {"Hel", "lo"}
MaxChunks == 2
MaxCalls == 1

RunStart == [type |-> "run_start", content |-> ""]
MessageDelta(chunk) == [type |-> "message_delta", content |-> chunk]
MessageDone(text) == [type |-> "message_done", content |-> text]
ErrorEvent(message) == [type |-> "error", content |-> message]
RunDone == [type |-> "run_done", content |-> ""]

RECURSIVE Concat(_)
Concat(fragments) ==
    IF fragments = <<>> THEN "" ELSE Head(fragments) \o Concat(Tail(fragments))

\* the toolset the agent's tool calls go through, and what the tool server answers
Toolset ==
    [verbose |-> FALSE, max_tokens |-> 20, max_array_items |-> 2,
     has_enabled_tools |-> FALSE, enabled_tools |-> {}]
ToolName == "execute_query"
ToolAnswers ==
    << Returned(JStr("ok")),
       Returned(JList(Ints(NumInts))),
       Returned(JDict(<< KV("result", JObj) >>)),
       Raised("tool server error") >>
\* truncating_toolset.py lines 67-87 on each answer
ToolOutcomes ==
    [a \in 1..Len(ToolAnswers) |-> call_tool(Toolset, ToolName, ToolAnswers[a])]

\* the handler as a bare `except:` would be: it catches the cancellation too
CatchesEverything(kind) == TRUE

\* line 67, `except Exception`: asyncio.CancelledError and GeneratorExit derive
\* from BaseException and pass through it
Catches(kind) == kind = "Exception"

\* the generator is inside the try block (lines 40-65), suspended at a yield or an await
InTry(position) == position \in {"enter", "stream", "get_data", "exit"}

\* result.stream_text(delta=False): each item is the whole text so far
StreamTextCumulative(accumulated, fragment) == accumulated \o fragment

\* result.stream_text(delta=True): each item is the new fragment alone
StreamTextItem(accumulated, fragment) == fragment

\* the handler ending the generator itself (a return after the error event)
AfterExceptReturns == "finished"

\* where the generator continues once the except clause has yielded the error event
AfterExcept == "run_done"

Emit(r, event) == events' = [events EXCEPT ![r] = Append(@, event)]

\* an exception of class `kind` reaches the try statement of run r
Throw(r, kind, message) ==
    IF Catches(kind)
    THEN /\ pc' = [pc EXCEPT ![r] = "except"]
         /\ exc' = [exc EXCEPT ![r] = message]
    ELSE /\ pc' = [pc EXCEPT ![r] = "closed"]
         /\ UNCHANGED exc

\* calls of run r whose request is still at the tool server are left behind
Abandon(r) ==
    calls' = [calls EXCEPT ![r] =
                [c \in DOMAIN @ |-> IF @[c] = "inflight" THEN "orphan" ELSE @[c]]]

SInit ==
    /\ pc = [r \in Runs |-> "new"]
    /\ events = [r \in Runs |-> <<>>]
    /\ produced = [r \in Runs |-> <<>>]
    /\ exc = [r \in Runs |-> ""]
    /\ connected = [r \in Runs |-> TRUE]
    /\ calls = [r \in Runs |-> <<>>]

\* line 42: the first resumption yields run_start
Start(r) ==
    /\ pc[r] = "new"
    /\ Emit(r, RunStart)
    /\ pc' = [pc EXCEPT ![r] = "enter"]
    /\ UNCHANGED <<produced, exc, connected, calls>>

\* line 45, agent.run_stream: the agent issues a tool call; call_tool awaits
\* super().call_tool at once (truncating_toolset.py line 67)
ToolCallStart(r) ==
    /\ pc[r] = "enter"
    /\ Len(calls[r]) < MaxCalls
    /\ calls' = [calls EXCEPT ![r] = Append(@, "inflight")]
    /\ UNCHANGED <<pc, events, produced, exc, connected>>

\* what call_tool hands back reaches the agent run: a value, or an exception
\* that ends the run and leaves its other calls behind
Deliver(r, c, out) ==
    IF out.raised
    THEN /\ Throw(r, "Exception", out.error)
         /\ calls' = [calls EXCEPT ![r] =
                        [k \in DOMAIN @ |->
                           IF k = c THEN "raised"
                           ELSE IF @[k] = "inflight" THEN "orphan" ELSE @[k]]]
    ELSE /\ calls' = [calls EXCEPT ![r][c] = "returned"]
         /\ UNCHANGED <<pc, exc>>

\* the underlying call answers and call_tool post-processes the answer
ToolCallReturn(r, c) ==
    /\ pc[r] = "enter"
    /\ c \in DOMAIN calls[r]
    /\ calls[r][c] = "inflight"
    /\ \E a \in 1..Len(ToolAnswers) :
         Deliver(r, c, ToolOutcomes[a])
    /\ UNCHANGED <<events, produced, connected>>

\* line 45: the model request of the agent run raises
AgentFail(r) ==
    /\ pc[r] = "enter"
    /\ Throw(r, "Exception", "model request failed")
    /\ Abandon(r)
    /\ UNCHANGED <<events, produced, connected>>

\* line 45: run_stream hands over the streamed result
EnterDone(r) ==
    /\ pc[r] = "enter"
    /\ \A c \in DOMAIN calls[r] : calls[r][c] # "inflight"
    /\ pc' = [pc EXCEPT ![r] = "stream"]
    /\ UNCHANGED <<events, produced, exc, connected, calls>>

\* lines 46-52: the next fragment arrives and is yielded as a message_delta
StreamChunk(r) ==
    /\ pc[r] = "stream"
    /\ Len(produced[r]) < MaxChunks
    /\ \E f \in Fragments :
         /\ produced' = [produced EXCEPT ![r] = Append(@, f)]
         /\ Emit(r, MessageDelta(StreamTextItem(Concat(produced[r]), f)))
    /\ UNCHANGED <<pc, exc, connected, calls>>

\* line 46: the stream raises between two fragments
StreamFail(r) ==
    /\ pc[r] = "stream"
    /\ Throw(r, "Exception", "stream interrupted")
    /\ UNCHANGED <<events, produced, connected, calls>>

\* line 46: the stream is exhausted
StreamEnd(r) ==
    /\ pc[r] = "stream"
    /\ pc' = [pc EXCEPT ![r] = "get_data"]
    /\ UNCHANGED <<events, produced, exc, connected, calls>>

\* lines 55-65: get_data, the completion event, its yield
Complete(r) ==
    /\ pc[r] = "get_data"
    /\ Emit(r, MessageDone(Concat(produced[r])))
    /\ pc' = [pc EXCEPT ![r] = "exit"]
    /\ UNCHANGED <<produced, exc, connected, calls>>

\* lines 55-65: get_data, str() or json.dumps raises before the yield
CompleteFail(r) ==
    /\ pc[r] = "get_data"
    /\ Throw(r, "Exception", "get_data failed")
    /\ UNCHANGED <<events, produced, connected, calls>>

\* line 45: the async with block is left, run_stream's __aexit__ returns
ExitOk(r) ==
    /\ pc[r] = "exit"
    /\ pc' = [pc EXCEPT ![r] = "run_done"]
    /\ UNCHANGED <<events, produced, exc, connected, calls>>

\* line 45: run_stream's __aexit__ raises (closing the model response, finishing
\* the run); the yield of line 65 has already happened and the try still covers it
ExitFail(r) ==
    /\ pc[r] = "exit"
    /\ Throw(r, "Exception", "run_stream exit failed")
    /\ UNCHANGED <<events, produced, connected, calls>>

\* lines 67-73
EmitError(r) ==
    /\ pc[r] = "except"
    /\ Emit(r, ErrorEvent(exc[r]))
    /\ pc' = [pc EXCEPT ![r] = AfterExcept]
    /\ UNCHANGED <<produced, exc, connected, calls>>

\* line 76
EmitRunDone(r) ==
    /\ pc[r] = "run_done"
    /\ Emit(r, RunDone)
    /\ pc' = [pc EXCEPT ![r] = "finished"]
    /\ UNCHANGED <<produced, exc, connected, calls>>

\* lines 93-94: the StreamingResponse that iterates the generator is cancelled
\* when its client goes away; the generator gets CancelledError at its await,
\* or GeneratorExit at its yield when it is finalized
Disconnect(r) ==
    /\ connected[r]
    /\ pc[r] \notin {"finished", "closed"}
    /\ connected' = [connected EXCEPT ![r] = FALSE]
    /\ IF InTry(pc[r])
       THEN Throw(r, "CancelledError", "cancelled")
       ELSE /\ pc' = [pc EXCEPT ![r] = "closed"]
            /\ UNCHANGED exc
    /\ Abandon(r)
    /\ UNCHANGED <<events, produced>>

\* a request left at the tool server is answered; nobody awaits the answer
OrphanAnswer(r, c) ==
    /\ c \in DOMAIN calls[r]
    /\ calls[r][c] = "orphan"
    /\ calls' = [calls EXCEPT ![r][c] = "discarded"]
    /\ UNCHANGED <<pc, events, produced, exc, connected>>

RunStep(r) ==
    \/ Start(r)
    \/ ToolCallStart(r)
    \/ \E c \in 1..MaxCalls : ToolCallReturn(r, c)
    \/ AgentFail(r)
    \/ EnterDone(r)
    \/ StreamChunk(r)
    \/ StreamFail(r)
    \/ StreamEnd(r)
    \/ Complete(r)
    \/ CompleteFail(r)
    \/ ExitOk(r)
    \/ ExitFail(r)
    \/ EmitError(r)
    \/ EmitRunDone(r)
    \/ \E c \in 1..MaxCalls : OrphanAnswer(r, c)

(***************************************************************************)
(* ag_ui.py lines 15-45: from the request's messages to the arguments of   *)
(* agent.run_stream.                                                       *)
(***************************************************************************)
MaxMessages == 3

Message(role, content) == [role |-> role, content |-> content]

MessagePool ==
    { Message("user", "a"), Message("assistant", "b"), Message("user", "c") }

\* RunAgentInput.messages: any list of messages, the empty one included
Requests == UNION { [1..n -> MessagePool] : n \in 0..MaxMessages }

\* run_stream(user_prompt, *, message_history=None): no history is handed over
NoHistory == <<>>

RInit ==
    /\ messages \in Requests
    /\ rpc = "received"
    /\ message_history = <<>>
    /\ user_prompt = ""
    /\ run_stream = Pending

\* the request conversion is not exercised
RIdle ==
    /\ messages = <<>>
    /\ rpc = "idle"
    /\ message_history = <<>>
    /\ user_prompt = ""
    /\ run_stream = Pending

\* lines 33-38: message_history from messages[:-1], user_prompt from messages[-1]
RConvert ==
    /\ rpc = "received"
    /\ message_history' =
          [i \in 1..(Len(messages) - 1) |->
             [role |-> messages[i].role, content |-> messages[i].content]]
    /\ user_prompt' =
          IF messages # <<>> THEN messages[Len(messages)].content ELSE ""
    /\ rpc' = "converted"
    /\ UNCHANGED <<messages, run_stream>>
    /\ UNCHANGED <<tvars, svars>>

\* line 45: agent.run_stream(user_prompt), the only argument
RRunStream ==
    /\ rpc = "converted"
    /\ run_stream' = [done |-> TRUE, user_prompt |-> user_prompt,
                      message_history |-> NoHistory]
    /\ rpc' = "running"
    /\ UNCHANGED <<messages, message_history, user_prompt>>
    /\ UNCHANGED <<tvars, svars>>

Init == TIdle /\ SInit /\ RIdle

Next ==
    \/ \E r \in Runs : Start(r) /\ UNCHANGED <<tvars, rvars>>
    \/ \E r \in Runs : ToolCallStart(r) /\ UNCHANGED <<tvars, rvars>>
    \/ \E r \in Runs : (\E c \in 1..MaxCalls : ToolCallReturn(r, c)) /\ UNCHANGED <<tvars, rvars>>
    \/ \E r \in Runs : AgentFail(r) /\ UNCHANGED <<tvars, rvars>>
    \/ \E r \in Runs : EnterDone(r) /\ UNCHANGED <<tvars, rvars>>
    \/ \E r \in Runs : StreamChunk(r) /\ UNCHANGED <<tvars, rvars>>
    \/ \E r \in Runs : StreamFail(r) /\ UNCHANGED <<tvars, rvars>>
    \/ \E r \in Runs : StreamEnd(r) /\ UNCHANGED <<tvars, rvars>>
    \/ \E r \in Runs : Complete(r) /\ UNCHANGED <<tvars, rvars>>
    \/ \E r \in Runs : CompleteFail(r) /\ UNCHANGED <<tvars, rvars>>
    \/ \E r \in Runs : ExitOk(r) /\ UNCHANGED <<tvars, rvars>>
    \/ \E r \in Runs : ExitFail(r) /\ UNCHANGED <<tvars, rvars>>
    \/ \E r \in Runs : EmitError(r) /\ UNCHANGED <<tvars, rvars>>
    \/ \E r \in Runs : EmitRunDone(r) /\ UNCHANGED <<tvars, rvars>>
    \/ \E r \in Runs : (\E c \in 1..MaxCalls : OrphanAnswer(r, c)) /\ UNCHANGED <<tvars, rvars>>
    \/ \E r \in Runs : Disconnect(r) /\ UNCHANGED <<tvars, rvars>>

Spec == Init /\ [][Next]_vars

TruncInit == TInit /\ SInit /\ RIdle

TruncNext == TBound \/ TRebound \/ TStructure \/ TIntercept \/ TArray \/ TText

TruncSpec == TruncInit /\ [][TruncNext]_vars

RequestInit == TIdle /\ SInit /\ RInit

RequestNext == RConvert \/ RRunStream

RequestSpec == RequestInit /\ [][RequestNext]_vars

(***************************************************************************)
(* Properties                                                              *)
(***************************************************************************)
Last(seq) == seq[Len(seq)]
Front(seq) == SubSeq(seq, 1, Len(seq) - 1)

\* the acceptor of RunStart, MessageDelta*, (MessageDone | Error), RunDone
PatternStep(state, type) ==
    CASE state = "idle" /\ type = "run_start" -> "running"
      [] state = "running" /\ type = "message_delta" -> "running"
      [] state = "running" /\ type \in {"message_done", "error"} -> "ended"
      [] state = "ended" /\ type = "run_done" -> "terminal"
      [] OTHER -> "bad"

RECURSIVE PatternState(_)
PatternState(evs) ==
    IF evs = <<>> THEN "idle" ELSE PatternStep(PatternState(Front(evs)), Last(evs).type)

Deltas(fragments) == [i \in 1..Len(fragments) |-> MessageDelta(fragments[i])]

RECURSIVE DeltaContents(_)
DeltaContents(evs) ==
    IF evs = <<>> THEN <<>>
    ELSE IF Last(evs).type = "message_delta"
         THEN Append(DeltaContents(Front(evs)), Last(evs).content)
         ELSE DeltaContents(Front(evs))

InFlight == {rc \in Runs \X (1..MaxCalls) :
                /\ rc[2] \in DOMAIN calls[rc[1]]
                /\ calls[rc[1]][rc[2]] \in {"inflight", "orphan"}}

Max(a, b) == IF a >= b THEN a ELSE b

RECURSIVE MaxOver(_, _)
RECURSIVE LongestArray(_)
\* the length of the longest array anywhere inside a value
LongestArray(v) ==
    CASE v.t = "list" -> Max(Len(v.v), MaxOver(v.v, Len(v.v)))
      [] v.t = "dict" -> MaxOver([i \in 1..Len(v.v) |-> v.v[i].val], Len(v.v))
      [] OTHER -> 0
MaxOver(items, n) ==
    IF n = 0 THEN 0 ELSE Max(LongestArray(items[n]), MaxOver(items, n - 1))

\* C1: the events of every run always form a prefix of RunStart, MessageDelta*,
\* (MessageDone | Error), RunDone, and the whole pattern once its generator has
\* run to its end.
C1_StreamPattern ==
    \A r \in Runs :
        /\ PatternState(events[r]) # "bad"
        /\ pc[r] = "finished" => PatternState(events[r]) = "terminal"

\* C2 as stated: a run that has emitted RunStart and whose generator has ended,
\* for whatever reason, has RunDone as its last event.
C2_RunDoneUnconditional ==
    \A r \in Runs :
        (pc[r] \in {"finished", "closed"} /\ events[r] # <<>>)
            => Last(events[r]) = RunDone

\* C2 as amended: a run that has emitted RunStart and whose client stays
\* connected stops only after RunDone, its last event, whether it completed or a
\* step raised: until then its generator always has a next step to take, and a
\* generator that ran to its end has RunDone last.
C2_RunDoneUnlessCancelled ==
    \A r \in Runs :
        /\ pc[r] = "finished" => Last(events[r]) = RunDone
        /\ (events[r] # <<>> /\ connected[r] /\ pc[r] # "finished")
              => ENABLED RunStep(r)

\* a run that failed before any MessageDelta and still ended with RunDone
C2_Witness ==
    \E r \in Runs :
        /\ pc[r] = "finished" /\ connected[r]
        /\ exc[r] # "" /\ produced[r] = <<>>
        /\ Last(events[r]) = RunDone

\* C3: a run in which a step raised after k fragments has emitted exactly RunStart,
\* the k MessageDelta events, one Error carrying the failure's text, RunDone.
C3_ErrorReplacesDone ==
    \A r \in Runs :
        (pc[r] = "finished" /\ exc[r] # "")
            => events[r] = <<RunStart>> \o Deltas(produced[r])
                               \o <<ErrorEvent(exc[r]), RunDone>>

\* C4: the bounded content of every outcome costs at most max_tokens.
C4_BoundedWithinBudget ==
    (tpc \in {"bounded", "rebounded"} /\ ~tout.raised)
        => estimate_tokens(tout.model_content) <= tmax

\* C5: bounding the bounded content again, with the same budget, reports no
\* truncation and returns it unchanged.
C5_Idempotent ==
    tpc = "rebounded"
        => /\ ~tout2.raised
           /\ ~tout2.was_truncated
           /\ tout2.model_content = tout.model_content

\* C6: after structural truncation no array at any depth holds more than
\* max_array_items elements.
C6_EveryArrayBounded ==
    tstruct.done => LongestArray(tstruct.value) <= titems

\* C7: smart_truncate_result never raises; a result that cannot be serialized
\* comes back untruncated.
C7_NeverRaises ==
    tpc \in {"bounded", "rebounded"} => (~tout.raised /\ (~Serializable(RawPool[tin]) => ~tout.was_truncated))

\* C8: once a run's client has disconnected, no step adds an event to its stream,
\* the answer of a tool call left in flight included.
C8_NoEmitAfterDisconnect ==
    [][\A r \in Runs : ~connected[r] => events'[r] = events[r]]_vars

\* a disconnected run, mid-stream, whose abandoned tool call has been answered
C8_Witness ==
    \E r \in Runs :
        /\ ~connected[r]
        /\ events[r] # <<>>
        /\ \E c \in DOMAIN calls[r] : calls[r][c] = "discarded"

\* C9: at most one request is in flight on the shared tool-server connection.
C9_AtMostOneInFlight == Cardinality(InFlight) <= 1

\* C10: the MessageDelta contents of a stream are the agent's fragments, in
\* production order, one event per fragment, and none follows MessageDone.
C10_DeltasAreFragments ==
    \A r \in Runs :
        /\ DeltaContents(events[r]) = produced[r]
        /\ \A i, j \in 1..Len(events[r]) :
              (events[r][i].type = "message_done" /\ events[r][j].type = "message_delta")
                  => j < i

\* a completed stream of two different fragments
C10_Witness ==
    \E r \in Runs :
        /\ pc[r] = "finished"
        /\ Len(produced[r]) = 2 /\ produced[r][1] # produced[r][2]
        /\ \E i \in 1..Len(events[r]) : events[r][i].type = "message_done"

\* C11: the agent run of a request with messages m1..mn (n >= 1) is started with
\* mn's content as the user prompt and m1..m(n-1), in order, as its history.
C11_HistoryReachesAgent ==
    (rpc = "running" /\ Len(messages) >= 1)
        => /\ run_stream.user_prompt = Last(messages).content
           /\ run_stream.message_history = Front(messages)

\* the value stored under a key of a dict
Get(dict, key) == dict.v[CHOOSE i \in 1..Len(dict.v) : dict.v[i].k = key].val

\* the tool is subject to truncation: no allow-set, or the tool is in it
Subject(call) == ~call.self.has_enabled_tools \/ call.name \in call.self.enabled_tools

\* two values are the same Python value (type first, then payload)
Same(a, b) == a.t = b.t /\ a = b

ReturnsRaw(call) == ~call.out.raised /\ Same(call.out.value, call.underlying.value)

PassesThrough(call, o) ==
    /\ ~Subject(call) => ReturnsRaw(call)
    /\ (Subject(call) /\ ~o.raised /\ ~o.was_truncated) => ReturnsRaw(call)

\* C12: whenever the underlying call returns, call_tool (default and verbose)
\* returns that very value, neither truncated nor re-encoded, if an allow-set is
\* configured and the tool is not in it, whatever the size of the result, and if
\* smart_truncate_result reports was_truncated = False.
C12_PassThrough ==
    (tcall.done /\ ~tcall.underlying.raised)
        => PassesThrough(tcall, tcall.truncation_result)

\* a verbose interceptor with an allow-set passes on, untouched, a structured
\* result over the budget of a tool outside the set
C12_Witness ==
    /\ tcall.done /\ ~tcall.underlying.raised
    /\ tcall.self.verbose /\ ~Subject(tcall)
    /\ RawPool[tin].t = "list"
    /\ Serializable(RawPool[tin])
    /\ estimate_tokens(Dumps(RawPool[tin], 0)) > tmax
    /\ ReturnsRaw(tcall)

\* the string form of a raw result: the str itself, or json.dumps(result, indent=2)
FullContent(result) == IF result.t = "str" THEN result.v ELSE Dumps(result, 0)

IsEnvelope(env, name, o, full) ==
    /\ env.t = "dict"
    /\ Same(Get(env, "content"), JStr(o.model_content))
    /\ Same(Get(Get(env, "metadata"), "tool_name"), JStr(name))
    /\ Get(Get(env, "metadata"), "truncation") =
          JDict(<< KV("was_truncated", JBool(TRUE)),
                   KV("original_size", JInt(Len(full))),
                   KV("truncated_size", JInt(Len(o.model_content))),
                   KV("truncation_type", JStr(o.metadata.truncation_type)),
                   KV("original_tokens", JInt(estimate_tokens(full))),
                   KV("truncated_tokens", JInt(estimate_tokens(o.model_content))) >>)
    /\ Same(Get(Get(env, "metadata"), "full_result"), JStr(full))

ShapedWhenTruncated(call, o, full) ==
    (Subject(call) /\ ~o.raised /\ o.was_truncated)
        => /\ ~call.out.raised
           /\ IF call.self.verbose
              THEN IsEnvelope(call.out.value, call.name, o, full)
              ELSE Same(call.out.value, JStr(o.model_content))

\* C13: when smart_truncate_result truncates the result of a tool subject to
\* truncation, the default interceptor returns model_content alone, and the
\* verbose interceptor returns a dict whose content is model_content, whose
\* metadata carries the tool name and the truncation accounting, and whose
\* full_result is the whole string form of the raw result, never None.
C13_TruncatedShape ==
    (tcall.done /\ ~tcall.underlying.raised /\ Serializable(RawPool[tin]))
        => ShapedWhenTruncated(tcall, tcall.truncation_result,
                               FullContent(RawPool[tin]))

\* a verbose interceptor has wrapped a structured result that was truncated
C13_Witness ==
    /\ tcall.done /\ ~tcall.underlying.raised
    /\ tcall.self.verbose /\ Subject(tcall)
    /\ RawPool[tin].t = "dict"
    /\ ~tcall.truncation_result.raised
    /\ tcall.truncation_result.was_truncated
    /\ ~tcall.out.raised
    /\ tcall.out.value.t = "dict"
    /\ Get(tcall.out.value, "content").v # FullContent(RawPool[tin])
    /\ Get(Get(tcall.out.value, "metadata"), "full_result").t = "str"

Bounded == tpc \in {"bounded", "rebounded"}

Unchanged(o, full) ==
    /\ ~o.was_truncated
    /\ o.model_content = full
    /\ o.truncated_size = o.original_size
    /\ o.original_size = Len(full)

\* C14: for a str result or a serializable structured one, full_content is the
\* str itself or json.dumps(result, indent=2); if its estimate is within
\* max_tokens the outcome is not truncated, model_content is full_content and the
\* two sizes agree; if its estimate exceeds max_tokens, was_truncated is True.
C14_WithinBudgetUntouched ==
    (Bounded /\ Serializable(RawPool[tin]))
        => /\ ~tout.raised
           /\ tout.full_content = FullContent(RawPool[tin])
           /\ IF estimate_tokens(tout.full_content) <= tmax
              THEN Unchanged(tout, FullContent(RawPool[tin]))
              ELSE tout.was_truncated

\* a structured result whose serialization is within the budget came back whole
C14_Witness ==
    /\ Bounded
    /\ RawPool[tin].t \in {"list", "dict"}
    /\ Serializable(RawPool[tin])
    /\ ~tout.raised /\ ~tout.was_truncated
    /\ tout.model_content = Dumps(RawPool[tin], 0)

Min(a, b) == IF a <= b THEN a ELSE b

HasKey(dict, key) == \E i \in 1..Len(dict.v) : dict.v[i].k = key

EndsWith(text, suffix) ==
    /\ Len(text) >= Len(suffix)
    /\ SubSeq(text, Len(text) - Len(suffix) + 1, Len(text)) = suffix

ArrayContract(data, max_items, include_summary, out) ==
    /\ Get(out, "items") = JList(SubSeq(data, 1, Min(Len(data), max_items)))
    /\ Get(out, "total_count") = JInt(Len(data))
    /\ Get(out, "showing") = JInt(Min(max_items, Len(data)))
    /\ Get(out, "truncated") = JBool(Len(data) > max_items)
    /\ HasKey(out, "summary") <=> (Len(data) > max_items /\ include_summary)
    /\ HasKey(out, "summary") =>
          EndsWith(Get(out, "summary").v,
                   " " \o ToString(Len(data) - max_items) \o " items truncated.")

\* C15: truncate_json_array on n elements returns items = the first
\* min(n, max_items) elements in order, total_count = n, showing = min(max_items, n),
\* truncated = (n > max_items), and a summary, counting the n - max_items items left
\* out, exactly when n > max_items and include_summary.
C15_ArrayContract ==
    tarr.done => ArrayContract(tarr.data, titems, tarr.include_summary, tarr.value)

\* an array longer than the cap was cut, with its summary
C15_Witness ==
    /\ tarr.done /\ tarr.include_summary
    /\ Len(tarr.data) > titems
    /\ Len(Get(tarr.value, "items").v) = titems
    /\ HasKey(tarr.value, "summary")

Cut(text, max_tokens) ==
    SubSeq(text, 1, max_tokens * 4) \o TruncationMarker(Len(text), max_tokens * 4)

\* a str result that does not parse and costs more than max_tokens comes back
\* truncated as text: its first max_tokens*4 characters, then the marker with the
\* original and the shown length
TextOutcome(text, o, max_tokens) ==
    (~Loads(text).ok /\ estimate_tokens(text) > max_tokens)
        => /\ ~o.raised
           /\ o.was_truncated
           /\ o.metadata.truncation_type = "text"
           /\ o.model_content = Cut(text, max_tokens)

TextBound ==
    (Bounded /\ RawPool[tin].t = "str") => TextOutcome(RawPool[tin].v, tout, tmax)

\* C16 as stated: TextBound, and truncate_text returns a text equal to its
\* input exactly when the input has at most max_tokens*4 characters.
C16_UnchangedExactlyWhenShort ==
    /\ TextBound
    /\ ttext.done =>
          (ttext.value = RawPool[tin].v <=> Len(RawPool[tin].v) <= tmax * 4)

\* C16 as amended: TextBound, and truncate_text returns its input whenever it has
\* at most max_tokens*4 characters, and otherwise its first max_tokens*4
\* characters followed by the marker (which an input that already ends in the
\* marker for its own length reproduces).
C16_TextTruncation ==
    /\ TextBound
    /\ ttext.done =>
          ttext.value = IF Len(RawPool[tin].v) <= tmax * 4
                        THEN RawPool[tin].v
                        ELSE Cut(RawPool[tin].v, tmax)

\* an unparseable text over the budget was cut by smart_truncate_result
C16_Witness ==
    /\ Bounded
    /\ RawPool[tin].t = "str"
    /\ ~Loads(RawPool[tin].v).ok
    /\ estimate_tokens(RawPool[tin].v) > tmax
    /\ tout.was_truncated
    /\ Len(tout.model_content) > tmax * 4

\* C17: a truncated outcome is never longer than the original.
C17_NeverLonger ==
    (Bounded /\ ~tout.raised /\ tout.was_truncated)
        => /\ tout.truncated_size <= tout.original_size
           /\ Len(tout.model_content) <= Len(tout.full_content)

====
